---- MODULE Spec2Model ----
EXTENDS Integers, Sequences, FiniteSets, TLC

(***************************************************************************)
(* Model of neurodb: the query executor (executor.py), the per-backend     *)
(* telemetry collectors and their factory (telemetry.py), the connectors   *)
(* (connectors/mysql.py, connectors/postgresql.py), the Database facade    *)
(* (database.py) and the validation of DatabaseConfig (config.py).  The    *)
(* connection is the environment: every statement submitted to it is       *)
(* answered by a result set, by "no result set", or by a driver error.     *)
(*                                                                         *)
(* Spec        the executor, the factory and a collector, called alone     *)
(* FacadeSpec  one call of a Database method, acquisition to release       *)
(* SharedSpec  select calls of concurrent callers on one Database object   *)
(* ConfigSpec  the construction of a DatabaseConfig                        *)
(* SequentialSpec  calls of Database methods, one after another            *)
(* HarvestSpec  the four harvest probes, the connection's answers given    *)
(***************************************************************************)

\* ------------------------------------------------------------------ bounds

\* Largest number of rows a result set holds.
MaxRows == 2

\* Largest reading of the wall clock.
MaxClock == 1

\* Number of callers that use one Database object at the same time.
MaxCalls == 2

\* ------------------------------------------------------------ basic values

\* Python's None.
None == [type |-> "NoneType"]

\* No exception is propagating.
NoException == [type |-> "NoException"]

\* sqlalchemy.engine.Result: the completion signal of connection.execute.
CompletionSignal == [type |-> "Result"]

\* pandas.DataFrame with one column; rows holds that column's cells.
DataFrame(columns, rows) == [type |-> "DataFrame", columns |-> columns, rows |-> rows]

\* int wrapped so that an Optional[int] compares with None.
PyInt(n) == [type |-> "int", value |-> n]

\* config.DatabaseType
MYSQL == "MYSQL"
POSTGRESQL == "POSTGRESQL"
DatabaseType == {MYSQL, POSTGRESQL}

\* A log record: its level and the module whose logger emitted it.
LogRecord(level, logger) == [level |-> level, logger |-> logger]

\* ------------------------------------------------------------- exceptions

\* f"Query execution failed: {query}. Error: {e}"
ErrorMsg(query, e) == <<"Query execution failed: ", query, ". Error: ", e>>

\* DatabaseError.__init__(message, original_error): the exception holds its
\* message and the original error, nothing else.
QueryExecutionError(message, original_error) ==
  [type |-> "QueryExecutionError", message |-> message, original_error |-> original_error]

\* -------------------------------------------------------------- connection

\* Exceptions the driver raises when it rejects a statement.
OperationalError == [type |-> "OperationalError"]
ProgrammingError == [type |-> "ProgrammingError"]
DriverErrors == {OperationalError, ProgrammingError}

RaiseResp(e) == [kind |-> "raise", error |-> e]
RowsResp(columns, rows) == [kind |-> "rows", columns |-> columns, rows |-> rows]
NoRowsResp == [kind |-> "norows"]

\* Cells a statistics column may hold, as the driver delivers them: text of
\* a positive integer, of a negative integer, and text that is no integer.
Cells == << <<"7">>, <<"-", "3">>, <<"n", "a">> >>

\* n rows, the first holding Cells[start], the following ones the next cells.
Rows(start, n) == [i \in 1..n |-> Cells[((start + i - 2) % Len(Cells)) + 1]]

\* The row sequences of a statistics result set.
StatRows == {Rows(s, n) : s \in 1..Len(Cells), n \in 0..MaxRows}

\* The row sequences of other result sets: n rows holding "1", "2", ...
PlainRows == {[i \in 1..n |-> <<"r", ToString(i)>>] : n \in 0..MaxRows}

\* What the connection may answer to a statement whose rows are read, and
\* to its re-submission when the first answer was "no result set".
Responses(errors, columns, rowseqs) ==
  {RaiseResp(e) : e \in errors} \cup {NoRowsResp}
    \cup {RowsResp({c}, r) : c \in columns, r \in rowseqs}

\* What the connection may answer to a statement whose rows are not read.
ExecResponses(errors) == {RaiseResp(e) : e \in errors} \cup {NoRowsResp}

\* The answers to one execute_query call: to the statement, and to its
\* re-submission (which happens only after "no result set").
Answers(errors, first) ==
  {<<r1, r2>> : r1 \in first \ {NoRowsResp}, r2 \in {NoRowsResp}}
    \cup {<<r1, r2>> : r1 \in first \cap {NoRowsResp}, r2 \in ExecResponses(errors)}

\* One statement received by the connection, and how it was answered.
Submission(text, params, resp) ==
  [text |-> text, params |-> params,
   outcome |-> IF resp.kind = "raise" THEN "error" ELSE resp.kind,
   error |-> IF resp.kind = "raise" THEN resp.error ELSE NoException]

\* --------------------------------------------------------------- executor

\* What one executor call did: the statements it sent, the records it
\* logged, the exception it raised (or NoException), the value it returned.
Outcome(sent, log, raised, value) ==
  [sent |-> sent, log |-> log, raised |-> raised, value |-> value]

\* OnFailure raising whatever raise_on_fail says.
OnFailure_always_raises(query, raise_on_fail, e, sent, log) ==
  Outcome(sent, log \o <<LogRecord("ERROR", "executor")>>,
          QueryExecutionError(ErrorMsg(query, e), e), None)

\* OnFailure raising QueryExecutionError(error_msg) without original_error.
OnFailure_no_cause(query, raise_on_fail, e, sent, log) ==
  Outcome(sent, log \o <<LogRecord("ERROR", "executor")>>,
          IF raise_on_fail THEN QueryExecutionError(ErrorMsg(query, e), None)
          ELSE NoException,
          None)

\* executor.py 61-66: the handler of any exception of execute_query.
OnFailure(query, raise_on_fail, e, sent, log) ==
  Outcome(sent, log \o <<LogRecord("ERROR", "executor")>>,
          IF raise_on_fail THEN QueryExecutionError(ErrorMsg(query, e), e)
          ELSE NoException,
          None)

\* executor.py 56-59: on ResourceClosedError the statement is executed
\* again and the Result of that execution returned.
Fallback(query, params, raise_on_fail, r2, sent, log) ==
  LET resent == sent \o <<Submission(query, params, r2)>>
  IN  IF r2.kind = "raise"
        THEN OnFailure(query, raise_on_fail, r2.error, resent, log)
        ELSE Outcome(resent, log, NoException, CompletionSignal)

\* executor.py 23-66: SafeQueryExecutor.execute_query.  r1 answers the
\* statement's submission, r2 its re-submission after ResourceClosedError.
ExecuteQuery(query, params, raise_on_fail, return_results, r1, r2) ==
  LET log == <<LogRecord("DEBUG", "executor")>>
      sent == <<Submission(query, params, r1)>>
  IN  IF r1.kind = "raise"
        THEN OnFailure(query, raise_on_fail, r1.error, sent, log)
      ELSE IF ~return_results
        THEN Outcome(sent, log, NoException, CompletionSignal)
      ELSE IF r1.kind = "rows"
        THEN Outcome(sent, log, NoException, DataFrame(r1.columns, r1.rows))
      ELSE Fallback(query, params, raise_on_fail, r2, sent, log)

\* bool wrapped so that it compares with the other returned values.
PyBool(b) == [type |-> "bool", value |-> b]

\* execute_command running the command in strict mode with no handler of its
\* own: the command's failure leaves it.
ExecuteCommand_propagating(command, params, r1) ==
  LET o == ExecuteQuery(command, params, TRUE, FALSE, r1, r1)
  IN  Outcome(o.sent, o.log, o.raised,
              IF o.raised = NoException THEN PyBool(TRUE) ELSE None)

\* executor.py 68-88: SafeQueryExecutor.execute_command.
ExecuteCommand(command, params, r1) ==
  LET o == ExecuteQuery(command, params, FALSE, FALSE, r1, r1)
  IN  IF o.raised # NoException
        THEN Outcome(o.sent, o.log \o <<LogRecord("ERROR", "executor")>>,
                     NoException, PyBool(FALSE))
        ELSE Outcome(o.sent, o.log, NoException, PyBool(TRUE))

\* -------------------------------------------------------------- telemetry

\* telemetry.py 65 and 164: the statement that arms instrumentation.
ArmStatement(db) ==
  IF db = MYSQL THEN "SET profiling = 1" ELSE "SET log_statement_stats = on"

\* telemetry.py 93-95, 110, 124, 138 and 193, 207, 221-222, 236-238: the
\* harvest probe of each MetricsRecord field.
ProbeStatement(db, field) ==
  IF db = MYSQL
    THEN CASE field = "indexes_used" ->
                "SELECT index_name FROM information_schema.statistics WHERE table_schema = DATABASE()"
           [] field = "table_scans" -> "SHOW STATUS LIKE 'Handler_read%'"
           [] field = "temp_tables" -> "SHOW STATUS LIKE 'Created_tmp%'"
           [] field = "memory_used" -> "SHOW STATUS LIKE 'Memory_used'"
    ELSE CASE field = "indexes_used" ->
                "SELECT indexname FROM pg_indexes WHERE schemaname = current_schema()"
           [] field = "table_scans" ->
                "SELECT COALESCE(sum(seq_scan), 0) as scans FROM pg_stat_all_tables"
           [] field = "temp_tables" ->
                "SELECT COALESCE(sum(temp_files), 0) as temp_tables FROM pg_stat_database"
           [] field = "memory_used" ->
                "SELECT setting::bigint * pg_size_bytes(unit) as bytes FROM pg_settings WHERE name = 'work_mem'"

\* telemetry.py 99, 113, 127, 141 and 196, 210, 225, 241: the column each
\* probe's value is read from.
ExpectedColumn(db, field) ==
  IF db = MYSQL
    THEN (IF field = "indexes_used" THEN "index_name" ELSE "Value")
    ELSE CASE field = "indexes_used" -> "indexname"
           [] field = "table_scans" -> "scans"
           [] field = "temp_tables" -> "temp_tables"
           [] field = "memory_used" -> "bytes"

HarvestFields == <<"indexes_used", "table_scans", "temp_tables", "memory_used">>

\* Python's int() of a cell: an optional sign and decimal digits, else
\* ValueError (ok = FALSE).
Digits == <<"0", "1", "2", "3", "4", "5", "6", "7", "8", "9">>

IsDigit(c) == \E d \in 1..Len(Digits) : Digits[d] = c

DigitValue(c) == (CHOOSE d \in 1..Len(Digits) : Digits[d] = c) - 1

RECURSIVE DigitsValue(_)
DigitsValue(s) ==
  IF s = <<>> THEN 0
  ELSE 10 * DigitsValue(SubSeq(s, 1, Len(s) - 1)) + DigitValue(s[Len(s)])

IntOf(cell) ==
  LET signed == Len(cell) > 0 /\ cell[1] \in {"-", "+"}
      body == IF signed THEN Tail(cell) ELSE cell
      ok == Len(body) > 0 /\ \A i \in 1..Len(body) : IsDigit(body[i])
  IN  [ok |-> ok,
       value |-> IF ~ok THEN 0
                 ELSE IF cell[1] = "-" THEN 0 - DigitsValue(body)
                 ELSE DigitsValue(body)]

\* What reading one field did: the field's value, the records logged, the
\* exception that left the method (or NoException).
Harvested(value, log) == [value |-> value, log |-> log, raised |-> NoException]

ProbeWarning == <<LogRecord("WARNING", "telemetry")>>

\* _get_used_indexes taking the frame's cells without looking for the
\* column.
UsedIndexesFrom_anycolumn(o, column) ==
  IF o.raised # NoException THEN Harvested(<<>>, ProbeWarning)
  ELSE IF o.value.type = "DataFrame" THEN Harvested(o.value.rows, <<>>)
  ELSE Harvested(<<>>, <<>>)

\* telemetry.py 90-104 and 189-201: _get_used_indexes, from the outcome o
\* of its execute_query call.
UsedIndexesFrom(o, column) ==
  IF o.raised # NoException THEN Harvested(<<>>, ProbeWarning)
  ELSE IF o.value.type = "DataFrame" /\ column \in o.value.columns
    THEN Harvested(o.value.rows, <<>>)
  ELSE Harvested(<<>>, <<>>)

\* _get_table_scans without its except clause: int()'s ValueError leaves it.
TableScansFrom_nocatch(o, column) ==
  IF o.raised # NoException THEN [Harvested(0, <<>>) EXCEPT !.raised = o.raised]
  ELSE IF o.value.type = "DataFrame" /\ column \in o.value.columns
          /\ o.value.rows # <<>>
    THEN LET n == IntOf(o.value.rows[1])
         IN  IF n.ok THEN Harvested(n.value, <<>>)
             ELSE [Harvested(0, <<>>) EXCEPT !.raised = [type |-> "ValueError"]]
  ELSE Harvested(0, <<>>)

\* telemetry.py 106-118 and 203-215: _get_table_scans.
TableScansFrom(o, column) ==
  IF o.raised # NoException THEN Harvested(0, ProbeWarning)
  ELSE IF o.value.type = "DataFrame" /\ column \in o.value.columns
          /\ o.value.rows # <<>>
    THEN LET n == IntOf(o.value.rows[1])
         IN  IF n.ok THEN Harvested(n.value, <<>>) ELSE Harvested(0, ProbeWarning)
  ELSE Harvested(0, <<>>)

\* _get_temp_tables reading the last row (iloc[-1]) instead of the first.
TempTablesFrom_lastrow(o, column) ==
  IF o.raised # NoException THEN Harvested(0, ProbeWarning)
  ELSE IF o.value.type = "DataFrame" /\ column \in o.value.columns
          /\ o.value.rows # <<>>
    THEN LET n == IntOf(o.value.rows[Len(o.value.rows)])
         IN  IF n.ok THEN Harvested(n.value, <<>>) ELSE Harvested(0, ProbeWarning)
  ELSE Harvested(0, <<>>)

\* telemetry.py 120-132 and 217-230: _get_temp_tables.
TempTablesFrom(o, column) ==
  IF o.raised # NoException THEN Harvested(0, ProbeWarning)
  ELSE IF o.value.type = "DataFrame" /\ column \in o.value.columns
          /\ o.value.rows # <<>>
    THEN LET n == IntOf(o.value.rows[1])
         IN  IF n.ok THEN Harvested(n.value, <<>>) ELSE Harvested(0, ProbeWarning)
  ELSE Harvested(0, <<>>)

\* _get_memory_usage degrading to 0, as the two counters do, not to None.
MemoryUsageFrom_zero(o, column) ==
  IF o.raised # NoException THEN Harvested(PyInt(0), ProbeWarning)
  ELSE IF o.value.type = "DataFrame" /\ column \in o.value.columns
          /\ o.value.rows # <<>>
    THEN LET n == IntOf(o.value.rows[1])
         IN  IF n.ok THEN Harvested(PyInt(n.value), <<>>)
             ELSE Harvested(PyInt(0), ProbeWarning)
  ELSE Harvested(PyInt(0), <<>>)

\* telemetry.py 134-146 and 232-246: _get_memory_usage.
MemoryUsageFrom(o, column) ==
  IF o.raised # NoException THEN Harvested(None, ProbeWarning)
  ELSE IF o.value.type = "DataFrame" /\ column \in o.value.columns
          /\ o.value.rows # <<>>
    THEN LET n == IntOf(o.value.rows[1])
         IN  IF n.ok THEN Harvested(PyInt(n.value), <<>>)
             ELSE Harvested(None, ProbeWarning)
  ELSE Harvested(None, <<>>)

\* Row count taken from the frame's width (len(result.columns)).
RowCount_columns(result) ==
  IF result.type = "DataFrame" THEN Cardinality(result.columns) ELSE 0

\* telemetry.py 73 and 172: row count of the primary result.
RowCount(result) == IF result.type = "DataFrame" THEN Len(result.rows) ELSE 0

\* The difference taken the wrong way round.
ExecutionTime_reversed(start, end) == start - end

\* telemetry.py 70 and 169: execution_time = time.time() - start_time.
ExecutionTime(start, end) == end - start

\* The primary query executed in the executor's default, lenient mode.
MeasureRaiseOnFail_lenient == FALSE

\* telemetry.py 69 and 168: the primary query is executed in strict mode.
MeasureRaiseOnFail == TRUE

\* telemetry.py 18-42: QueryMetrics.
QueryMetrics(q, p, et, rc, ts, iu, tsc, tt, mu) ==
  [query |-> q, params |-> p, execution_time |-> et, row_count |-> rc,
   timestamp |-> ts, indexes_used |-> iu, table_scans |-> tsc,
   temp_tables |-> tt, memory_used |-> mu]

\* The pair returned without the primary result.
CollectReturn_lost(res, metrics) == [type |-> "tuple", result |-> None, metrics |-> metrics]

\* telemetry.py 88 and 187: return result, metrics.
CollectReturn(res, metrics) == [type |-> "tuple", result |-> res, metrics |-> metrics]

\* ---------------------------------------------------------------- factory

\* A connection handle (sqlalchemy.engine.Connection), told apart by id.
Connection(id) == [type |-> "Connection", id |-> id]

\* executor.py 19-21: SafeQueryExecutor(connection).
SafeQueryExecutor(connection) == [type |-> "SafeQueryExecutor", connection |-> connection]

\* telemetry.py 53-56, 152-155: a collector holds the connection and the
\* executor it was constructed with.
Collector(class, connection, executor) ==
  [type |-> class, connection |-> connection, executor |-> executor]

\* telemetry.py 255-258: the collector class of each backend variant.
Collectors ==
  [v \in DatabaseType |->
     IF v = MYSQL THEN "MySQLTelemetryCollector" ELSE "PostgreSQLTelemetryCollector"]

\* telemetry.py 262: ValueError(f"Unsupported database type: {db_type}"),
\* the error the design calls UnsupportedBackend.
UnsupportedBackend(db) ==
  [type |-> "ValueError", message |-> <<"Unsupported database type: ", db>>]

\* The factory falling back to the MySQL collector for an unknown variant.
CreateTelemetryCollector_defaulting(db, connection, executor) ==
  Outcome(<<>>, <<>>, NoException,
          Collector(IF db \in DOMAIN Collectors THEN Collectors[db]
                    ELSE Collectors[MYSQL],
                    connection, executor))

\* telemetry.py 249-264: create_telemetry_collector.
CreateTelemetryCollector(db, connection, executor) ==
  IF db \in DOMAIN Collectors
    THEN Outcome(<<>>, <<>>, NoException,
                 Collector(Collectors[db], connection, executor))
    ELSE Outcome(<<>>, <<>>, UnsupportedBackend(db), None)


\* -------------------------------------------------------------- connector

\* A pool engine (sqlalchemy.engine.Engine), told apart by id.
Engine(id) == [type |-> "Engine", id |-> id]

\* exceptions.py: DatabaseConnectionError(message, original_error).
DatabaseConnectionError(message, original_error) ==
  [type |-> "DatabaseConnectionError", message |-> message,
   original_error |-> original_error]

\* The logger of the connector module of each backend.
ConnectorLogger(db) == IF db = MYSQL THEN "connectors.mysql" ELSE "connectors.postgresql"

\* mysql.py 75, postgresql.py 92: f"Failed to connect to ... database: {e}".
ConnectMsg(db, e) ==
  <<IF db = MYSQL THEN "Failed to connect to MySQL database: "
    ELSE "Failed to connect to PostgreSQL database: ", e>>

\* mysql.py 45-47, postgresql.py 46-48: the connector's fields once
\* constructed.
NewConnector == [_engine |-> None, _connection |-> None]

\* The engines and connections created so far, each with the number of
\* times it was disposed or closed, and the number of close_connection
\* calls.
NoResources == [engines |-> <<>>, conns |-> <<>>, close_calls |-> 0]

IsOpen(res, c) == res.conns[c.id].closes = 0

\* mysql.py 64-70, postgresql.py 74-81: self._engine = create_engine(...).
CreateEngine(k, res) ==
  [connector |-> [k EXCEPT !._engine = Engine(Len(res.engines) + 1)],
   resources |-> [res EXCEPT !.engines = Append(@, [disposals |-> 0])]]

\* mysql.py 71, postgresql.py 83: self._connection = self._engine.connect().
Connect(k, res) ==
  [connector |-> [k EXCEPT !._connection = Connection(Len(res.conns) + 1)],
   resources |-> [res EXCEPT !.conns =
                    Append(@, [engine |-> k._engine.id, closes |-> 0])]]

\* postgresql.py 172-181: the session settings of a new connection.
SessionSettings ==
  <<"SET statement_timeout = '300000'", "SET row_security = on",
    "SET search_path = public",
    "SET TRANSACTION ISOLATION LEVEL READ COMMITTED">>

\* postgresql.py 163-187: _configure_session executes each setting on the
\* connection and logs a warning for each one the connection rejects;
\* answers[i] answers the i-th setting.  The MySQL connector has no session
\* settings.
ConfigureSession(db, answers) ==
  IF db = MYSQL THEN [sent |-> <<>>, log |-> <<>>]
  ELSE [sent |-> [i \in 1..Len(SessionSettings) |->
                    Submission(SessionSettings[i], None, answers[i])],
        log |-> [i \in 1..Cardinality({j \in 1..Len(SessionSettings) :
                                         answers[j].kind = "raise"}) |->
                   LogRecord("WARNING", ConnectorLogger(db))]]

\* The answers of the connection to the session settings: a connection
\* that was just established accepts them.
SessionAnswers == {[i \in 1..Len(SessionSettings) |-> NoRowsResp]}

\* What acquiring a connection did.
Acquired(k, res, sent, log, raised, value) ==
  [connector |-> k, resources |-> res, sent |-> sent, log |-> log,
   raised |-> raised, value |-> value]

\* How far get_connection gets: create_engine raises, connect() raises, or
\* the connection is established.
ConnectWays == {"no_engine", "no_connection", "connected"}

\* mysql.py 49-77, postgresql.py 55-94: get_connection.  Whatever was
\* assigned before the failure stays assigned.
GetConnection(k, res, db, way, e, answers) ==
  LET failed(kk, rr) ==
        Acquired(kk, rr, <<>>, <<LogRecord("ERROR", ConnectorLogger(db))>>,
                 DatabaseConnectionError(ConnectMsg(db, e), e), None)
      g == CreateEngine(k, res)
      c == Connect(g.connector, g.resources)
  IN  IF way = "no_engine" THEN failed(k, res)
      ELSE IF way = "no_connection" THEN failed(g.connector, g.resources)
      ELSE Acquired(c.connector, c.resources,
                    ConfigureSession(db, answers).sent,
                    ConfigureSession(db, answers).log
                      \o <<LogRecord("DEBUG", ConnectorLogger(db))>>,
                    NoException, c.connector._connection)

\* mysql.py 90-92, postgresql.py 107-109: the connection the connector
\* refers to, if any, is closed.
CloseStep(k, res) ==
  IF k._connection = None THEN res
  ELSE [res EXCEPT !.conns[k._connection.id].closes = @ + 1]

\* mysql.py 93-95, postgresql.py 111-113: the engine the connector refers
\* to, if any, is disposed.
DisposeStep(k, res) ==
  IF k._engine = None THEN res
  ELSE [res EXCEPT !.engines[k._engine.id].disposals = @ + 1]

\* How close() of the connection ends.
CloseAnswers == {"closed", "raise"}

\* What close_connection did: it returns nothing and raises nothing.
Cleaned(res, log) == [resources |-> res, log |-> log]

\* mysql.py 79-98, postgresql.py 96-117: close_connection.  The fields are
\* not reset.  When close() raises, the engine is not disposed and the error
\* is logged.
CloseConnection(k, res, db, answer) ==
  LET called == [res EXCEPT !.close_calls = @ + 1]
      debug == <<LogRecord("DEBUG", ConnectorLogger(db))>>
  IN  IF k._connection # None /\ answer = "raise"
        THEN Cleaned(called, <<LogRecord("ERROR", ConnectorLogger(db))>>)
        ELSE Cleaned(DisposeStep(k, CloseStep(k, called)),
                     (IF k._connection # None THEN debug ELSE <<>>)
                       \o (IF k._engine # None THEN debug ELSE <<>>))

\* What Python raises for a method the object does not have.
AttributeError(class, name) ==
  [type |-> "AttributeError", object |-> class, name |-> name]

\* ----------------------------------------------------------------- config

\* str wrapped so that it compares with None and with an int.
PyStr(s) == [type |-> "str", value |-> s]

\* config.py 104: the largest port number.
MaxPort == 65535

\* exceptions.py 57-67: DatabaseConfigError(message).
DatabaseConfigError(message) ==
  [type |-> "DatabaseConfigError", message |-> message, original_error |-> None]

\* config.py 98, 100, 102: `not v or not isinstance(v, str)`.
MissingText(v) == v.type # "str" \/ v.value = ""

\* The port check without its upper limit.
PortValid_no_upper(port) == port.type = "int" /\ port.value >= 1

\* config.py 104: isinstance(port, int) and 1 <= port <= 65535.
PortValid(port) == port.type = "int" /\ port.value >= 1 /\ port.value <= MaxPort

\* config.py 24-35: SSLConfig, the fields the validation reads.
SSLConfig(enabled, verify_cert, ca_cert) ==
  [enabled |-> enabled, verify_cert |-> verify_cert, ca_cert |-> ca_cert]

\* config.py 135-136: valid_sslmodes.
ValidSslModes == {"disable", "allow", "prefer", "require", "verify-ca", "verify-full"}

\* config.py 96-113: _validate_base_config: the error of the first check
\* that fails, or NoException.
ValidateBaseConfig(c) ==
  IF MissingText(c.user) THEN DatabaseConfigError("Invalid username")
  ELSE IF MissingText(c.password) THEN DatabaseConfigError("Invalid password")
  ELSE IF MissingText(c.host) THEN DatabaseConfigError("Invalid host")
  ELSE IF ~PortValid(c.port) THEN DatabaseConfigError("Invalid port number")
  ELSE IF c.database # None /\ c.database.type # "str"
    THEN DatabaseConfigError("Invalid database name")
  ELSE IF c.pool_size < 1 THEN DatabaseConfigError("Pool size must be positive")
  ELSE IF c.max_overflow < 0
    THEN DatabaseConfigError("Max overflow must be non-negative")
  ELSE IF c.pool_timeout < 1
    THEN DatabaseConfigError("Pool timeout must be positive")
  ELSE NoException

\* config.py 115-141: _validate_db_specific_config.
ValidateDbSpecificConfig(c) ==
  IF c.db_type = MYSQL
    THEN IF c.mysql_ssl.enabled /\ c.mysql_ssl.verify_cert
            /\ MissingText(c.mysql_ssl.ca_cert)
           THEN DatabaseConfigError(
                  "CA certificate required when SSL verification is enabled")
           ELSE NoException
  ELSE IF c.db_type = POSTGRESQL /\ c.sslmode \notin ValidSslModes
    THEN DatabaseConfigError("Invalid sslmode. Must be one of: {valid_sslmodes}")
  ELSE NoException

\* config.py 65-94: DatabaseConfig(...): the dataclass assigns the fields
\* and __post_init__ validates them; an error leaves no object.
NewDatabaseConfig(c) ==
  IF ValidateBaseConfig(c) # NoException
    THEN Outcome(<<>>, <<>>, ValidateBaseConfig(c), None)
  ELSE IF ValidateDbSpecificConfig(c) # NoException
    THEN Outcome(<<>>, <<>>, ValidateDbSpecificConfig(c), None)
  ELSE Outcome(<<>>, <<>>, NoException, [type |-> "DatabaseConfig", fields |-> c])

\* ------------------------------------------------------------------ state

VARIABLES
  db_type,         \* the backend variant the collector was created for
  pc,              \* position of the call in progress
  op,              \* the operation called
  args,            \* its arguments
  sent,            \* the statements the connection received, in order
  log,             \* the log records emitted, in order
  clock,           \* the last reading of the wall clock
  timing,          \* TRUE between the start and the end reading
  start_time, execution_time, row_count,
  result,          \* collect_metrics' local: the primary result
  indexes_used, table_scans, temp_tables,
  ret,             \* the value the call returned
  exc,             \* the exception the call raised
  connector,       \* the fields of the Database object's connector
  resources,       \* the engines and connections created, and their state
  calls,           \* the select calls of concurrent callers
  script           \* what the connection will answer to each harvest probe

vars == <<db_type, pc, op, args, sent, log, clock, timing, start_time,
          execution_time, row_count, result, indexes_used, table_scans,
          temp_tables, ret, exc, connector, resources, calls, script>>

\* What a behaviour starts from and no step changes.
given == <<db_type, script>>

facade == <<connector, resources, calls>>

locals == <<start_time, execution_time, row_count, result, indexes_used,
            table_scans, temp_tables>>

\* Statements and bound parameters callers pass.
Dict(v) == [type |-> "dict", v |-> v]

\* A query, which has a result set, and a command with a bound parameter,
\* which has none.
SelectStatement == "SELECT * FROM t"
UpdateStatement == "UPDATE t SET v = :v"

QueryInputs ==
  {[query |-> SelectStatement, params |-> None],
   [query |-> UpdateStatement, params |-> Dict(1)]}

\* What the connection may answer to the caller's statement.
PrimaryResponses(query) ==
  {RaiseResp(e) : e \in DriverErrors}
    \cup (IF query = SelectStatement
            THEN {RowsResp({"id"}, r) : r \in PlainRows}
            ELSE {NoRowsResp})

\* The error with which the connection rejects a session or statistics
\* statement.
ProbeErrors == {OperationalError}

\* Result sets a harvest probe may produce: with the column the collector
\* reads, or with another one.
ProbeResponses(field) ==
  Responses(ProbeErrors, {ExpectedColumn(db_type, field), "other"},
            IF field = "indexes_used" THEN PlainRows ELSE StatRows)

\* The answers the connection may give to a field's probe and to its
\* re-submission: any, unless the behaviour started from a script.
ProbeAnswers(field) ==
  IF script = None THEN Answers(ProbeErrors, ProbeResponses(field))
  ELSE {script[field]}

\* The connection's record of the statements an executor call sent, tagged
\* with the step that sent them and whether the timer was running.
Received(step, submissions) ==
  [i \in 1..Len(submissions) |->
     [step |-> step, text |-> submissions[i].text,
      params |-> submissions[i].params, outcome |-> submissions[i].outcome,
      error |-> submissions[i].error, timed |-> timing]]

Init ==
  /\ db_type \in DatabaseType
  /\ pc = "idle"
  /\ op = "none"
  /\ args = None
  /\ sent = <<>>
  /\ log = <<>>
  /\ clock = 0
  /\ timing = FALSE
  /\ start_time = 0
  /\ execution_time = 0
  /\ row_count = 0
  /\ result = None
  /\ indexes_used = <<>>
  /\ table_scans = 0
  /\ temp_tables = 0
  /\ ret = None
  /\ exc = NoException
  /\ connector = NewConnector
  /\ resources = NoResources
  /\ calls = <<>>
  /\ script = None

\* --------------------------------------------------- executor, called alone

\* SafeQueryExecutor.execute_query called by itself.
CallExecuteQuery ==
  /\ pc = "idle"
  /\ \E in \in QueryInputs, raise_on_fail \in BOOLEAN, return_results \in BOOLEAN :
     \E a \in Answers(DriverErrors, PrimaryResponses(in.query)) :
       LET o == ExecuteQuery(in.query, in.params, raise_on_fail, return_results,
                             a[1], a[2])
       IN  /\ op' = "execute_query"
           /\ args' = [query |-> in.query, params |-> in.params,
                       raise_on_fail |-> raise_on_fail,
                       return_results |-> return_results]
           /\ sent' = sent \o Received("execute_query", o.sent)
           /\ log' = log \o o.log
           /\ exc' = o.raised
           /\ ret' = IF o.raised = NoException THEN o.value ELSE None
           /\ pc' = IF o.raised = NoException THEN "returned" ELSE "raised"
  /\ UNCHANGED <<facade, given, clock, timing, locals>>

\* SafeQueryExecutor.execute_command called by itself.
CallExecuteCommand ==
  /\ pc = "idle"
  /\ \E in \in QueryInputs :
     \E r1 \in PrimaryResponses(in.query) :
       LET o == ExecuteCommand(in.query, in.params, r1)
       IN  /\ op' = "execute_command"
           /\ args' = [command |-> in.query, params |-> in.params]
           /\ sent' = sent \o Received("execute_command", o.sent)
           /\ log' = log \o o.log
           /\ exc' = o.raised
           /\ ret' = IF o.raised = NoException THEN o.value ELSE None
           /\ pc' = IF o.raised = NoException THEN "returned" ELSE "raised"
  /\ UNCHANGED <<facade, given, clock, timing, locals>>

\* ------------------------------------------------- factory, called alone

\* Variants a caller may pass: the enumeration's, and one outside it.
Variants == DatabaseType \cup {"SQLITE"}

\* The connections a caller may hold.
Handles == {Connection(1), Connection(2)}

\* create_telemetry_collector called by itself, with an executor bound to
\* the same or to another connection.
CallCreateTelemetryCollector ==
  /\ pc = "idle"
  /\ \E v \in Variants, c \in Handles, ec \in Handles :
       LET o == CreateTelemetryCollector(v, c, SafeQueryExecutor(ec))
       IN  /\ op' = "create_telemetry_collector"
           /\ args' = [db_type |-> v, connection |-> c,
                       executor |-> SafeQueryExecutor(ec)]
           /\ sent' = sent \o Received("create_telemetry_collector", o.sent)
           /\ log' = log \o o.log
           /\ exc' = o.raised
           /\ ret' = IF o.raised = NoException THEN o.value ELSE None
           /\ pc' = IF o.raised = NoException THEN "returned" ELSE "raised"
  /\ UNCHANGED <<facade, given, clock, timing, locals>>

\* ------------------------------------------------------- collect_metrics

\* telemetry.py 58-62, 157-161: collect_metrics(query, params) is called.
CallCollectMetrics ==
  /\ pc = "idle"
  /\ \E in \in QueryInputs :
       args' = [query |-> in.query, params |-> in.params]
  /\ op' = "collect_metrics"
  /\ pc' = "arm"
  /\ UNCHANGED <<facade, given, sent, log, clock, timing, locals, ret, exc>>

\* telemetry.py 65, 164: the arm statement, through execute_command.
Arm ==
  /\ pc = "arm"
  /\ \E r1 \in ExecResponses(ProbeErrors) :
       LET o == ExecuteCommand(ArmStatement(db_type), None, r1)
       IN  /\ sent' = sent \o Received("arm", o.sent)
           /\ log' = log \o o.log
           /\ exc' = o.raised
           /\ pc' = IF o.raised = NoException THEN "start" ELSE "raised"
  /\ UNCHANGED <<facade, given, op, args, clock, timing, locals, ret>>

\* telemetry.py 68, 167: start_time = time.time().
StartTimer ==
  /\ pc = "start"
  /\ \E t \in clock..MaxClock :
       /\ clock' = t
       /\ start_time' = t
  /\ timing' = TRUE
  /\ pc' = "measure"
  /\ UNCHANGED <<facade, given, op, args, sent, log, execution_time, row_count,
                 result, indexes_used, table_scans, temp_tables,
                 ret, exc>>

\* telemetry.py 69, 168: the primary query, through execute_query.
Measure ==
  /\ pc = "measure"
  /\ \E a \in Answers(DriverErrors, PrimaryResponses(args.query)) :
       LET o == ExecuteQuery(args.query, args.params, MeasureRaiseOnFail, TRUE,
                             a[1], a[2])
       IN  /\ sent' = sent \o Received("measure", o.sent)
           /\ log' = log \o o.log
           /\ exc' = o.raised
           /\ result' = IF o.raised = NoException THEN o.value ELSE result
           /\ pc' = IF o.raised = NoException THEN "stop" ELSE "raised"
  /\ UNCHANGED <<facade, given, op, args, clock, timing, start_time, execution_time,
                 row_count, indexes_used, table_scans, temp_tables, ret>>

\* telemetry.py 70-73, 169-172: the end reading and the row count.
StopTimer ==
  /\ pc = "stop"
  /\ \E t \in clock..MaxClock :
       /\ clock' = t
       /\ execution_time' = ExecutionTime(start_time, t)
  /\ timing' = FALSE
  /\ row_count' = RowCount(result)
  /\ pc' = "indexes_used"
  /\ UNCHANGED <<facade, given, op, args, sent, log, start_time, result,
                 indexes_used, table_scans, temp_tables, ret, exc>>

\* A harvest probe sent with the params of the collect_metrics call.
Probe_bound(field, r1, r2) ==
  ExecuteQuery(ProbeStatement(db_type, field), args.params, FALSE, TRUE, r1, r2)

\* One harvest probe: execute_query(statement) with the defaults
\* raise_on_fail = False, return_results = True.
Probe(field, r1, r2) ==
  ExecuteQuery(ProbeStatement(db_type, field), None, FALSE, TRUE, r1, r2)

\* telemetry.py 82, 181: indexes_used = self._get_used_indexes().
GetUsedIndexes ==
  /\ pc = "indexes_used"
  /\ \E a \in ProbeAnswers("indexes_used") :
       LET o == Probe("indexes_used", a[1], a[2])
           h == UsedIndexesFrom(o, ExpectedColumn(db_type, "indexes_used"))
       IN  /\ sent' = sent \o Received("indexes_used", o.sent)
           /\ log' = log \o o.log \o h.log
           /\ exc' = h.raised
           /\ indexes_used' = IF h.raised = NoException THEN h.value ELSE indexes_used
           /\ pc' = IF h.raised = NoException THEN "table_scans" ELSE "raised"
  /\ UNCHANGED <<facade, given, op, args, clock, timing, start_time, execution_time,
                 row_count, result, table_scans, temp_tables, ret>>

\* telemetry.py 83, 182: table_scans = self._get_table_scans().
GetTableScans ==
  /\ pc = "table_scans"
  /\ \E a \in ProbeAnswers("table_scans") :
       LET o == Probe("table_scans", a[1], a[2])
           h == TableScansFrom(o, ExpectedColumn(db_type, "table_scans"))
       IN  /\ sent' = sent \o Received("table_scans", o.sent)
           /\ log' = log \o o.log \o h.log
           /\ exc' = h.raised
           /\ table_scans' = IF h.raised = NoException THEN h.value ELSE table_scans
           /\ pc' = IF h.raised = NoException THEN "temp_tables" ELSE "raised"
  /\ UNCHANGED <<facade, given, op, args, clock, timing, start_time, execution_time,
                 row_count, result, indexes_used, temp_tables, ret>>

\* telemetry.py 84, 183: temp_tables = self._get_temp_tables().
GetTempTables ==
  /\ pc = "temp_tables"
  /\ \E a \in ProbeAnswers("temp_tables") :
       LET o == Probe("temp_tables", a[1], a[2])
           h == TempTablesFrom(o, ExpectedColumn(db_type, "temp_tables"))
       IN  /\ sent' = sent \o Received("temp_tables", o.sent)
           /\ log' = log \o o.log \o h.log
           /\ exc' = h.raised
           /\ temp_tables' = IF h.raised = NoException THEN h.value ELSE temp_tables
           /\ pc' = IF h.raised = NoException THEN "memory_used" ELSE "raised"
  /\ UNCHANGED <<facade, given, op, args, clock, timing, start_time, execution_time,
                 row_count, result, indexes_used, table_scans, ret>>

\* telemetry.py 85-88, 184-187: memory_used = self._get_memory_usage(), the
\* record is built and returned with the primary result.  No statement runs
\* between the end reading and timestamp = datetime.now() (81, 180): the
\* record's timestamp is the clock as last read.
GetMemoryUsage ==
  /\ pc = "memory_used"
  /\ \E a \in ProbeAnswers("memory_used") :
       LET o == Probe("memory_used", a[1], a[2])
           h == MemoryUsageFrom(o, ExpectedColumn(db_type, "memory_used"))
       IN  /\ sent' = sent \o Received("memory_used", o.sent)
           /\ log' = log \o o.log \o h.log
           /\ exc' = h.raised
           /\ ret' = IF h.raised = NoException
                        THEN CollectReturn(result,
                               QueryMetrics(args.query, args.params,
                                            execution_time, row_count, clock,
                                            indexes_used, table_scans,
                                            temp_tables, h.value))
                        ELSE ret
           /\ pc' = IF h.raised = NoException THEN "returned" ELSE "raised"
  /\ UNCHANGED <<facade, given, op, args, clock, timing, locals>>

Next ==
  \/ CallExecuteQuery
  \/ CallExecuteCommand
  \/ CallCreateTelemetryCollector
  \/ CallCollectMetrics
  \/ Arm
  \/ StartTimer
  \/ Measure
  \/ StopTimer
  \/ GetUsedIndexes
  \/ GetTableScans
  \/ GetTempTables
  \/ GetMemoryUsage

Spec == Init /\ [][Next]_vars

\* ---------------------------------------------------------------- Database

\* The error with which create_engine or connect() fails.
ConnectErrors == {OperationalError}

\* select always collecting telemetry, whatever capture_telemetry says.
SelectEntry_always_telemetry(capture_telemetry) == "arm"

\* database.py 80-88: with capture_telemetry the collector's
\* collect_metrics runs, without it the executor's execute_query.
SelectEntry(capture_telemetry) == IF capture_telemetry THEN "arm" ELSE "query"

\* database.py 43-88, 138-147: Database.select enters _managed_connection,
\* which acquires the connection, and constructs the executor and, with
\* capture_telemetry, the collector.
Select(capture_telemetry) ==
  /\ pc = "idle"
  /\ \E in \in QueryInputs :
     \E way \in ConnectWays, e \in ConnectErrors, answers \in SessionAnswers :
       LET g == GetConnection(connector, resources, db_type, way, e, answers)
           f == IF capture_telemetry
                  THEN CreateTelemetryCollector(db_type, g.value,
                                                SafeQueryExecutor(g.value))
                  ELSE Outcome(<<>>, <<>>, NoException, None)
       IN  /\ op' = "select"
           /\ args' = [query |-> in.query, params |-> in.params,
                       capture_telemetry |-> capture_telemetry]
           /\ connector' = g.connector
           /\ resources' = g.resources
           /\ sent' = sent \o Received("get_connection", g.sent)
           /\ log' = log \o g.log
           /\ exc' = IF g.raised # NoException THEN g.raised ELSE f.raised
           /\ pc' = IF g.raised # NoException \/ f.raised # NoException
                      THEN "raised" ELSE SelectEntry(capture_telemetry)
  /\ UNCHANGED <<calls, given, clock, timing, locals, ret>>

\* Database.select called with or without telemetry.
CallSelect == \E capture_telemetry \in BOOLEAN : Select(capture_telemetry)

\* database.py 88: return executor.execute_query(query, params,
\* raise_on_fail=True).
SelectQuery ==
  /\ pc = "query"
  /\ \E a \in Answers(DriverErrors, PrimaryResponses(args.query)) :
       LET o == ExecuteQuery(args.query, args.params, TRUE, TRUE, a[1], a[2])
       IN  /\ sent' = sent \o Received("query", o.sent)
           /\ log' = log \o o.log
           /\ exc' = o.raised
           /\ ret' = IF o.raised = NoException THEN o.value ELSE None
           /\ pc' = IF o.raised = NoException THEN "returned" ELSE "raised"
  /\ UNCHANGED <<facade, given, op, args, clock, timing, locals>>

\* telemetry.py 50-146, 149-246: neither collector class defines
\* get_execution_plan or get_resource_usage; calling one raises
\* AttributeError before anything is sent.
MissingMethod(collector, name) ==
  Outcome(<<>>, <<>>, AttributeError(collector.type, name), None)

\* A facade method that acquires a connection, creates the collector and
\* returns what the collector's method `name` returns.
CallCollectorMethod(name, arguments) ==
  /\ pc = "idle"
  /\ \E way \in ConnectWays, e \in ConnectErrors, answers \in SessionAnswers :
       LET g == GetConnection(connector, resources, db_type, way, e, answers)
           f == CreateTelemetryCollector(db_type, g.value,
                                         SafeQueryExecutor(g.value))
           o == IF g.raised # NoException
                  THEN Outcome(<<>>, <<>>, g.raised, None)
                ELSE IF f.raised # NoException THEN f
                ELSE MissingMethod(f.value, name)
       IN  /\ args' = arguments
           /\ connector' = g.connector
           /\ resources' = g.resources
           /\ sent' = sent \o Received("get_connection", g.sent)
                        \o Received(name, o.sent)
           /\ log' = log \o g.log \o o.log
           /\ exc' = o.raised
           /\ ret' = IF o.raised = NoException THEN o.value ELSE None
           /\ pc' = IF o.raised = NoException THEN "returned" ELSE "raised"
  /\ UNCHANGED <<calls, given, clock, timing, locals>>

\* database.py 90-109: Database.get_performance_metrics.
CallGetPerformanceMetrics ==
  /\ op' = "get_performance_metrics"
  /\ CallCollectorMethod("get_resource_usage", None)

\* database.py 111-136: Database.analyze_query.
CallAnalyzeQuery ==
  /\ op' = "analyze_query"
  /\ \E in \in QueryInputs :
       CallCollectorMethod("get_execution_plan",
                           [query |-> in.query, params |-> in.params])

\* _managed_connection closing the connection after the yield, with no
\* finally clause: an exception of the body skips the cleanup.
ManagedConnectionExit_without_finally ==
  /\ pc \in {"returned", "raised"}
  /\ \E answer \in CloseAnswers :
       LET c == CloseConnection(connector, resources, db_type, answer)
       IN  /\ resources' = IF pc = "returned" THEN c.resources ELSE resources
           /\ log' = IF pc = "returned" THEN log \o c.log ELSE log
  /\ pc' = "done"
  /\ UNCHANGED <<connector, calls, given, op, args, sent, clock, timing,
                 locals, ret, exc>>

\* database.py 148-150: the finally clause of _managed_connection calls
\* close_connection, however the body ended; what the body returned or
\* raised then leaves the facade method.
ManagedConnectionExit ==
  /\ pc \in {"returned", "raised"}
  /\ \E answer \in CloseAnswers :
       LET c == CloseConnection(connector, resources, db_type, answer)
       IN  /\ resources' = c.resources
           /\ log' = log \o c.log
  /\ pc' = "done"
  /\ UNCHANGED <<connector, calls, given, op, args, sent, clock, timing,
                 locals, ret, exc>>

FacadeNext ==
  \/ CallSelect
  \/ SelectQuery
  \/ CallGetPerformanceMetrics
  \/ CallAnalyzeQuery
  \/ Arm
  \/ StartTimer
  \/ Measure
  \/ StopTimer
  \/ GetUsedIndexes
  \/ GetTableScans
  \/ GetTempTables
  \/ GetMemoryUsage
  \/ ManagedConnectionExit

\* One call of a Database method, from the acquisition of its connection to
\* the connection's release.
FacadeSpec == Init /\ [][FacadeNext]_vars

\* -------------------------------------------- Database, one call after another

\* The method returned or raised to its caller, who calls the same Database
\* object again; the object keeps its connector (database.py 41).
CallAgain ==
  /\ pc = "done"
  /\ resources.close_calls < MaxCalls
  /\ pc' = "idle"
  /\ UNCHANGED <<facade, given, op, args, sent, log, clock, timing, locals,
                 ret, exc>>

\* select without telemetry.
PlainSelect == Select(FALSE)

SequentialNext ==
  \/ PlainSelect
  \/ SelectQuery
  \/ CallGetPerformanceMetrics
  \/ CallAnalyzeQuery
  \/ ManagedConnectionExit
  \/ CallAgain

\* Up to MaxCalls calls of Database methods on one object, each ended before
\* the next begins.
SequentialSpec == Init /\ [][SequentialNext]_vars

\* ------------------------------------------- Database, concurrent callers

\* Database.select(query, capture_telemetry=True) called by several threads
\* on one Database object.  The object has one connector (database.py 41),
\* whose _engine and _connection fields every call assigns and reads.  A
\* thread may be preempted between the statements of get_connection and of
\* close_connection; what a statement returns matters here only where it
\* decides how the call goes on.

Callers == 1..MaxCalls

\* The steps of collect_metrics that send a statement, in order.
CollectSteps == <<"arm", "measure">> \o HarvestFields

\* A call: its position, the connection _managed_connection yielded to it,
\* the exception it is raising, and whether, between its arm statement and
\* its last harvest probe, another call sent a statement on its connection
\* or closed it.
NewCall ==
  [pc |-> "idle", connection |-> None, exc |-> NoException,
   sent_under |-> FALSE, closed_under |-> FALSE]

\* The call has sent its arm statement and not yet its last harvest probe.
InSpan(call) == call.pc \in {CollectSteps[i] : i \in 2..Len(CollectSteps)}

\* The calls other than t that are in their span on connection c.
SpanOwners(t, c) ==
  {u \in Callers \ {t} : InSpan(calls[u]) /\ calls[u].connection = c}

\* mysql.py 64-70: the call enters _managed_connection and get_connection
\* assigns self._engine, or create_engine raises.
EngineStep(t) ==
  /\ calls[t].pc = "idle"
  /\ \E way \in {"no_engine", "engine"}, e \in ConnectErrors :
       LET g == CreateEngine(connector, resources)
       IN  IF way = "engine"
             THEN /\ connector' = g.connector
                  /\ resources' = g.resources
                  /\ calls' = [calls EXCEPT ![t].pc = "connect"]
             ELSE /\ calls' = [calls EXCEPT
                                 ![t].pc = "close",
                                 ![t].exc = DatabaseConnectionError(
                                              ConnectMsg(db_type, e), e)]
                  /\ UNCHANGED <<connector, resources>>
  /\ UNCHANGED <<given, pc, op, args, sent, log, clock, timing, locals,
                 ret, exc>>

\* mysql.py 71: self._connection = self._engine.connect(), on the engine
\* the field refers to now, or connect() raises.
ConnectStep(t) ==
  /\ calls[t].pc = "connect"
  /\ \E way \in {"no_connection", "connected"}, e \in ConnectErrors :
       LET c == Connect(connector, resources)
       IN  IF way = "connected"
             THEN /\ connector' = c.connector
                  /\ resources' = c.resources
                  /\ calls' = [calls EXCEPT ![t].pc = "return"]
             ELSE /\ calls' = [calls EXCEPT
                                 ![t].pc = "close",
                                 ![t].exc = DatabaseConnectionError(
                                              ConnectMsg(db_type, e), e)]
                  /\ UNCHANGED <<connector, resources>>
  /\ UNCHANGED <<given, pc, op, args, sent, log, clock, timing, locals,
                 ret, exc>>

\* mysql.py 73, postgresql.py 86-89: the session settings (PostgreSQL) are
\* executed on self._connection and self._connection is returned, as the
\* field is now; database.py 147 yields it to the call.
ReturnStep(t) ==
  /\ calls[t].pc = "return"
  /\ calls' = [u \in Callers |->
                 IF u = t
                   THEN [calls[u] EXCEPT !.pc = CollectSteps[1],
                                         !.connection = connector._connection]
                 ELSE IF db_type = POSTGRESQL
                         /\ u \in SpanOwners(t, connector._connection)
                   THEN [calls[u] EXCEPT !.sent_under = TRUE]
                 ELSE calls[u]]
  /\ UNCHANGED <<connector, resources, given, pc, op, args, sent, log,
                 clock, timing, locals, ret, exc>>

\* The position after a step of collect_metrics.
AfterStep(step) ==
  IF step = CollectSteps[Len(CollectSteps)] THEN "close"
  ELSE CollectSteps[(CHOOSE i \in 1..Len(CollectSteps) : CollectSteps[i] = step) + 1]

\* telemetry.py 65-85: the call sends the statement of its next step on its
\* connection.  A closed connection rejects it; an open one accepts or
\* rejects it.  Only the rejected primary query ends the call.
StatementStep(t) ==
  /\ calls[t].pc \in {CollectSteps[i] : i \in 1..Len(CollectSteps)}
  /\ \E r \in {RaiseResp(OperationalError), RowsResp({"id"}, <<>>)} :
       /\ IsOpen(resources, calls[t].connection) \/ r.kind = "raise"
       /\ LET o == ExecuteQuery(SelectStatement, None, MeasureRaiseOnFail,
                                TRUE, r, r)
              aborted == calls[t].pc = "measure" /\ o.raised # NoException
          IN  calls' = [u \in Callers |->
                 IF u = t
                   THEN [calls[u] EXCEPT
                           !.pc = IF aborted THEN "close"
                                  ELSE AfterStep(calls[t].pc),
                           !.exc = IF aborted THEN o.raised ELSE @]
                 ELSE IF u \in SpanOwners(t, calls[t].connection)
                   THEN [calls[u] EXCEPT !.sent_under = TRUE]
                 ELSE calls[u]]
  /\ UNCHANGED <<connector, resources, given, pc, op, args, sent, log,
                 clock, timing, locals, ret, exc>>

\* database.py 148-150, mysql.py 90-92: the finally clause calls
\* close_connection, which closes the connection self._connection refers
\* to now; when close() raises, the engine is not disposed.
CloseStepOf(t) ==
  /\ calls[t].pc = "close"
  /\ \E answer \in CloseAnswers :
       LET raised == connector._connection # None /\ answer = "raise"
           called == [resources EXCEPT !.close_calls = @ + 1]
       IN  /\ resources' = IF raised THEN called
                           ELSE CloseStep(connector, called)
           /\ calls' = [u \in Callers |->
                 IF u = t
                   THEN [calls[u] EXCEPT
                           !.pc = IF raised THEN "done" ELSE "dispose"]
                 ELSE IF ~raised /\ u \in SpanOwners(t, connector._connection)
                   THEN [calls[u] EXCEPT !.closed_under = TRUE]
                 ELSE calls[u]]
  /\ UNCHANGED <<connector, given, pc, op, args, sent, log, clock, timing,
                 locals, ret, exc>>

\* mysql.py 93-95: close_connection disposes the engine self._engine
\* refers to now; the call is over.
DisposeStepOf(t) ==
  /\ calls[t].pc = "dispose"
  /\ resources' = DisposeStep(connector, resources)
  /\ calls' = [calls EXCEPT ![t].pc = "done"]
  /\ UNCHANGED <<connector, given, pc, op, args, sent, log, clock, timing,
                 locals, ret, exc>>

SharedInit ==
  /\ db_type \in DatabaseType
  /\ pc = "idle" /\ op = "none" /\ args = None
  /\ sent = <<>> /\ log = <<>>
  /\ clock = 0 /\ timing = FALSE
  /\ start_time = 0 /\ execution_time = 0 /\ row_count = 0
  /\ result = None /\ indexes_used = <<>>
  /\ table_scans = 0 /\ temp_tables = 0
  /\ ret = None /\ exc = NoException
  /\ connector = NewConnector
  /\ resources = NoResources
  /\ calls = [t \in Callers |-> NewCall]
  /\ script = None

SharedNext ==
  \E t \in Callers :
    \/ EngineStep(t)
    \/ ConnectStep(t)
    \/ ReturnStep(t)
    \/ StatementStep(t)
    \/ CloseStepOf(t)
    \/ DisposeStepOf(t)

\* Concurrent select calls on one Database object.
SharedSpec == SharedInit /\ [][SharedNext]_vars

\* ------------------------------------------------------- DatabaseConfig

\* Values passed for user, password and host.
Texts == {None, PyStr(""), PyStr("neuro")}

\* Values passed for port: around both limits, and a port given as text.
Ports ==
  {PyInt(0), PyInt(1), PyInt(MaxPort), PyInt(MaxPort + 1), PyStr("3306")}

\* The arguments of the constructor; the pool settings lie around their
\* limits.
ConfigInputs ==
  [db_type : DatabaseType, user : Texts, password : Texts, host : Texts,
   port : Ports, database : {None, PyStr("db")},
   pool_size : {0, 1}, max_overflow : {0 - 1, 0}, pool_timeout : {0, 1},
   mysql_ssl : {SSLConfig(FALSE, TRUE, None), SSLConfig(TRUE, TRUE, None)},
   sslmode : {"prefer", "none"}]

ConfigInit ==
  /\ db_type \in DatabaseType
  /\ pc = "idle" /\ op = "DatabaseConfig"
  /\ args \in ConfigInputs
  /\ args.db_type = db_type
  /\ sent = <<>> /\ log = <<>>
  /\ clock = 0 /\ timing = FALSE
  /\ start_time = 0 /\ execution_time = 0 /\ row_count = 0
  /\ result = None /\ indexes_used = <<>>
  /\ table_scans = 0 /\ temp_tables = 0
  /\ ret = None /\ exc = NoException
  /\ connector = NewConnector
  /\ resources = NoResources
  /\ calls = <<>>
  /\ script = None

\* config.py 65-94: DatabaseConfig(**args) is constructed.
Construct ==
  /\ pc = "idle"
  /\ LET o == NewDatabaseConfig(args)
     IN  /\ exc' = o.raised
         /\ ret' = o.value
         /\ pc' = IF o.raised = NoException THEN "returned" ELSE "raised"
  /\ UNCHANGED <<facade, given, op, args, sent, log, clock, timing, locals>>

ConfigNext == Construct

\* The construction of one DatabaseConfig from arbitrary arguments.
ConfigSpec == ConfigInit /\ [][ConfigNext]_vars

\* ------------------------------------ collect_metrics, harvest under a script

\* The scripts of a connection: an answer to each field's probe and to its
\* re-submission.
Scripts ==
  [indexes_used : Answers(ProbeErrors, ProbeResponses("indexes_used")),
   table_scans : Answers(ProbeErrors, ProbeResponses("table_scans")),
   temp_tables : Answers(ProbeErrors, ProbeResponses("temp_tables")),
   memory_used : Answers(ProbeErrors, ProbeResponses("memory_used"))]

\* collect_metrics(SelectStatement) as it stands after telemetry.py 73 and
\* 172, when the arm statement went through and the query gave one row at
\* once: the state from which the four fields are harvested.
HarvestStart ==
  LET armed == ExecuteCommand(ArmStatement(db_type), None, NoRowsResp)
      rows == <<<<"r", "1">>>>
      measured == ExecuteQuery(SelectStatement, None, MeasureRaiseOnFail, TRUE,
                               RowsResp({"id"}, rows), NoRowsResp)
      stamped(step, subs, t) ==
        [i \in 1..Len(subs) |->
           [step |-> step, text |-> subs[i].text, params |-> subs[i].params,
            outcome |-> subs[i].outcome, error |-> subs[i].error, timed |-> t]]
  IN  /\ pc = "indexes_used"
      /\ op = "collect_metrics"
      /\ args = [query |-> SelectStatement, params |-> None]
      /\ sent = stamped("arm", armed.sent, FALSE)
                  \o stamped("measure", measured.sent, TRUE)
      /\ log = armed.log \o measured.log
      /\ clock = 0 /\ timing = FALSE
      /\ start_time = 0 /\ execution_time = ExecutionTime(0, 0)
      /\ result = measured.value
      /\ row_count = RowCount(measured.value)
      /\ indexes_used = <<>> /\ table_scans = 0 /\ temp_tables = 0
      /\ ret = None /\ exc = NoException
      /\ connector = NewConnector
      /\ resources = NoResources
      /\ calls = <<>>

HarvestInit ==
  /\ db_type \in DatabaseType
  /\ script \in Scripts
  /\ HarvestStart

HarvestNext ==
  \/ GetUsedIndexes
  \/ GetTableScans
  \/ GetTempTables
  \/ GetMemoryUsage

\* The harvest of one collect_metrics call from a connection whose answers
\* are fixed beforehand.
HarvestSpec == HarvestInit /\ [][HarvestNext]_vars

\* ------------------------------------------------------------- properties

HarvestSteps == {HarvestFields[i] : i \in 1..Len(HarvestFields)}

InCollect == op = "collect_metrics"

\* The statements some step sent.
SentBy(step) == SelectSeq(sent, LAMBDA e : e.step = step)

\* The texts of the statements the connection received, in order.
SentTexts == [i \in 1..Len(sent) |-> sent[i].text]

\* The texts of the collector's harvest probes, of either backend.
ProbeTexts == {ProbeStatement(db, f) : db \in DatabaseType, f \in HarvestSteps}

LastOf(seq) == seq[Len(seq)]

\* The connection rejected the primary query: its submission, or its
\* re-submission after "no result set".
PrimaryFailed == \E i \in 1..Len(sent) : sent[i].step = "measure" /\ sent[i].outcome = "error"

PrimarySucceeded ==
  /\ SentBy("measure") # <<>>
  /\ LastOf(SentBy("measure")).outcome # "error"
  /\ pc # "measure"

ArmFailed == \E i \in 1..Len(sent) : sent[i].step = "arm" /\ sent[i].outcome = "error"

\* The connection rejected every statement of the field's probe.
ProbeRejected(field) ==
  /\ SentBy(field) # <<>>
  /\ \A i \in 1..Len(sent) : sent[i].step = field => sent[i].outcome = "error"

\* C1: when the primary query fails during collect_metrics, the call raises
\* QueryExecutionError, no harvest probe statement reaches the connection
\* and no MetricsRecord is returned.
C1_PrimaryFailureAborts ==
  (InCollect /\ PrimaryFailed) =>
    /\ pc = "raised"
    /\ exc.type = "QueryExecutionError"
    /\ ret = None
    /\ \A i \in 1..Len(sent) :
         sent[i].text \notin ProbeTexts /\ sent[i].step \notin HarvestSteps

\* C1's case: the re-submission of a primary query without result set was
\* rejected, after the arm statement had gone through.
C1_Witness ==
  /\ InCollect /\ pc = "raised"
  /\ Len(SentBy("measure")) = 2
  /\ LastOf(sent).outcome = "error"
  /\ ~ArmFailed

\* C2: when the primary query succeeds and the connection rejects every
\* harvest probe, collect_metrics returns the primary result with
\* indexes_used = [], table_scans = 0, temp_tables = 0, memory_used = None.
C2_AllProbesRejected ==
  (InCollect /\ PrimarySucceeded /\ \A f \in HarvestSteps : ProbeRejected(f)) =>
    /\ pc = "returned"
    /\ exc = NoException
    /\ ret.type = "tuple"
    /\ ret.result = result
    /\ ret.metrics.indexes_used = <<>>
    /\ ret.metrics.table_scans = 0
    /\ ret.metrics.temp_tables = 0
    /\ ret.metrics.memory_used = None

\* C2's case: a primary result of two rows, then four rejected probes.
C2_Witness ==
  /\ InCollect /\ pc = "returned"
  /\ \A f \in HarvestSteps : ProbeRejected(f)
  /\ result.type = "DataFrame" /\ Len(result.rows) = 2

\* C3: when the arm statement fails, collect_metrics goes on: it raises only
\* if the primary query fails, and a call that returned has executed the
\* primary query and each of the four harvest probes.
C3_ArmFailureIsNotFatal ==
  (InCollect /\ ArmFailed) =>
    /\ pc \notin {"idle", "arm"}
    /\ (pc = "raised" => PrimaryFailed)
    /\ (pc = "returned" =>
          /\ SentBy("measure") # <<>>
          /\ \A f \in HarvestSteps : SentBy(f) # <<>>
          /\ ret.type = "tuple")

\* C3's case: the arm statement was rejected and the call returned.
C3_Witness ==
  /\ InCollect /\ pc = "returned" /\ ArmFailed
  /\ sent[1].text = ArmStatement(db_type)
  /\ db_type = POSTGRESQL

\* C4: the statements a successful collect_metrics call sent are exactly the
\* backend's arm statement, the caller's query, and the backend's indexes,
\* table_scans, temp_tables and memory probes, in this order.
C4_StatementOrder ==
  (InCollect /\ pc = "returned") =>
    SentTexts = <<ArmStatement(db_type), args.query>>
                  \o [i \in 1..Len(HarvestFields) |->
                        ProbeStatement(db_type, HarvestFields[i])]

\* C5: collect_metrics raises only when the primary query failed, and then
\* QueryExecutionError; whatever the arm statement and the probes did, a
\* call whose primary query succeeded raises nothing and returns the pair.
C5_OnlyPrimaryFailureRaises ==
  InCollect =>
    /\ (pc = "raised" => PrimaryFailed /\ exc.type = "QueryExecutionError")
    /\ (PrimarySucceeded => pc # "raised" /\ exc = NoException)
    /\ (pc = "returned" =>
          /\ exc = NoException
          /\ ret.type = "tuple"
          /\ ret.metrics.query = args.query)

\* C5's case: the call returned although the arm statement was rejected, the
\* indexes probe was rejected, the table_scans probe had no result set, the
\* temp_tables probe held text that is no integer (a warning was logged) and
\* the memory probe came back without rows to read a value from.
C5_Witness ==
  /\ InCollect /\ pc = "returned"
  /\ ArmFailed
  /\ ProbeRejected("indexes_used")
  /\ Len(SentBy("table_scans")) = 2
  /\ \E i \in 1..Len(log) : log[i].level = "WARNING"
  /\ LastOf(sent).outcome = "rows" /\ ret.metrics.memory_used = None

C7_PrimaryResultKept ==
  [][(InCollect /\ pc \in HarvestSteps) =>
       /\ result' = result
       /\ (pc' = "returned" => ret'.result = result)]_vars

\* C7's case: a table was returned as the pair's first element after probes
\* that returned values and probes that failed.
C7_Witness ==
  /\ InCollect /\ pc = "returned"
  /\ ret.result.type = "DataFrame" /\ Len(ret.result.rows) = 1
  /\ ret.metrics.indexes_used # <<>>
  /\ ProbeRejected("table_scans")
  /\ ret.metrics.memory_used # None

\* C8: only the primary query is sent while the timer runs (the arm statement
\* before the start reading, every probe after the end reading), and
\* execution_time is the end reading minus the start reading, never negative.
C8_TimedWindow ==
  InCollect =>
    /\ \A i \in 1..Len(sent) : sent[i].timed <=> sent[i].step = "measure"
    /\ (pc \in HarvestSteps \cup {"returned"} =>
          /\ execution_time = clock - start_time
          /\ execution_time >= 0)
    /\ (pc = "returned" => ret.metrics.execution_time = execution_time)

\* C8's case: time passed during the primary query, and all six statements
\* were sent.
C8_Witness ==
  /\ InCollect /\ pc = "returned"
  /\ ret.metrics.execution_time > 0
  /\ Len(sent) = 6

\* C9: execute_query with raise_on_fail = false never raises; when the
\* statement's execution failed, it returns None.
C9_LenientNeverRaises ==
  (op = "execute_query" /\ ~args.raise_on_fail) =>
    /\ pc = "returned"
    /\ exc = NoException
    /\ (LastOf(sent).outcome = "error" => ret = None)

\* C9's case: the re-submission after "no result set" was rejected.
C9_Witness ==
  /\ op = "execute_query" /\ ~args.raise_on_fail /\ args.return_results
  /\ Len(sent) = 2 /\ sent[2].outcome = "error"
  /\ ret = None

C11_NoResultSetReturnsSignal ==
  (op = "execute_query" /\ args.return_results /\ sent[1].outcome = "norows") =>
    /\ pc = "returned"
    /\ exc = NoException
    /\ ret = CompletionSignal

\* C12: create_telemetry_collector returns a MySQL collector for MYSQL and a
\* PostgreSQL collector for POSTGRESQL, each holding the given connection
\* and executor; for a variant outside the enumeration it raises the
\* unsupported-backend error; in every case the connection receives no
\* statement.
C12_FactoryDispatch ==
  op = "create_telemetry_collector" =>
    /\ sent = <<>>
    /\ args.db_type = MYSQL =>
         pc = "returned" /\ ret.type = "MySQLTelemetryCollector"
    /\ args.db_type = POSTGRESQL =>
         pc = "returned" /\ ret.type = "PostgreSQLTelemetryCollector"
    /\ args.db_type \in DatabaseType =>
         /\ exc = NoException
         /\ ret.connection = args.connection
         /\ ret.executor = args.executor
    /\ args.db_type \notin DatabaseType =>
         /\ pc = "raised"
         /\ exc = UnsupportedBackend(args.db_type)
         /\ ret = None

\* C12's case: the factory was asked for a variant outside the enumeration.
C12_Witness ==
  /\ op = "create_telemetry_collector"
  /\ args.db_type \notin DatabaseType
  /\ args.executor.connection # args.connection
  /\ pc = "raised"

\* C15: in every MetricsRecord collect_metrics returns, table_scans and
\* temp_tables are non-negative integers and memory_used is None or a
\* non-negative integer, whatever the probed columns hold, negative values
\* included.  (The collectors return int() of the first row's cell as it
\* is.)
C15_CountersNonNegative ==
  (InCollect /\ pc = "returned") =>
    /\ ret.metrics.table_scans >= 0
    /\ ret.metrics.temp_tables >= 0
    /\ ret.metrics.memory_used # None => ret.metrics.memory_used.value >= 0

\* C16: execute_command returns True when the command executed on the
\* connection and False when its execution failed, and never raises.
\* (execute_query is called in its lenient mode, which swallows the
\* failure: the handler of execute_command is never entered.)
C16_ReturnsWhetherExecuted ==
  op = "execute_command" =>
    /\ pc = "returned"
    /\ exc = NoException
    /\ ret = PyBool(LastOf(sent).outcome # "error")

\* Some statement of the arm step or of a harvest probe was rejected by the
\* connection.
ProbeFailure ==
  \E i \in 1..Len(sent) :
    sent[i].step \in {"arm"} \cup HarvestSteps /\ sent[i].outcome = "error"

Logged(level) == \E i \in 1..Len(log) : log[i].level = level

\* C21: a failure of the arm statement or of a harvest probe is recorded
\* only through a warning-level log record: when the primary query did not
\* fail, the log holds a WARNING record and no ERROR record, and the call
\* raises nothing.  (The executor logs the rejected statement at ERROR level
\* and returns None, so the collectors' warning handlers are not entered.)
C21_ProbeFailureOnlyWarns ==
  (InCollect /\ ProbeFailure /\ ~PrimaryFailed) =>
    /\ Logged("WARNING")
    /\ ~Logged("ERROR")
    /\ pc # "raised"

\* C23: one call of execute_query submits the given statement to the
\* connection exactly once, on every path.  (After pandas has executed a
\* statement that has no result set, the handler of ResourceClosedError
\* executes it again.)
C23_SubmittedOnce ==
  op = "execute_query" =>
    /\ Len(sent) = 1
    /\ sent[1].text = args.query /\ sent[1].params = args.params

\* C25: in collect_metrics the caller's params go with the primary query
\* only: the arm statement and the four harvest probes are sent with no
\* bound parameters, and the MetricsRecord returned carries the caller's
\* query text and params.
C25_ParamsWithPrimaryOnly ==
  InCollect =>
    /\ \A i \in 1..Len(sent) :
         /\ sent[i].step = "measure" =>
              sent[i].text = args.query /\ sent[i].params = args.params
         /\ sent[i].step \in {"arm"} \cup HarvestSteps => sent[i].params = None
    /\ (pc = "returned" =>
          ret.metrics.query = args.query /\ ret.metrics.params = args.params)

\* C25's case: a call with a bound parameter returned, after the arm
\* statement and four probes that each gave rows.
C25_Witness ==
  /\ InCollect /\ pc = "returned"
  /\ args.params = Dict(1)
  /\ ret.metrics.params = Dict(1)
  /\ Len(SentBy("arm")) = 1
  /\ \A f \in HarvestSteps : Len(SentBy(f)) = 1 /\ SentBy(f)[1].outcome = "rows"

\* ---------------------------------------------------- properties, Database

\* The call's connection was acquired.
ConnectionAcquired == connector._connection # None

\* The statements sent with the acquired connection, those of its
\* acquisition left out.
SentInBody == SelectSeq(sent, LAMBDA e : e.step # "get_connection")

\* C13, in each state of a select call: statements are sent only with an
\* acquired connection; until the call is over close_connection has not been
\* called and the connection is open; however the body ended, the exit of
\* _managed_connection is the next step, and once the call is over
\* close_connection has been called.
C13_ReleasedOnEveryPath ==
  op = "select" =>
    /\ sent # <<>> => (ConnectionAcquired /\ resources.conns # <<>>)
    /\ pc # "done" => resources.close_calls = 0
    /\ (pc # "done" /\ ConnectionAcquired) =>
         IsOpen(resources, connector._connection)
    /\ pc \in {"returned", "raised"} => ENABLED ManagedConnectionExit
    /\ pc = "done" => resources.close_calls = 1

\* C13, in each step: a step in or after which close_connection has been
\* called sends no statement.
C13_NothingSentAfterRelease ==
  (op' = "select" /\ resources'.close_calls > 0) => sent' = sent

\* C13: every Database.select call, with or without telemetry, acquires a
\* connection before its first statement and calls close_connection after
\* its last one on every path (normal return, failure of the primary query,
\* failure of the acquisition); no statement is sent after the release.
C13_AcquireThenRelease ==
  []C13_ReleasedOnEveryPath /\ [][C13_NothingSentAfterRelease]_vars

\* C13's case: a select with telemetry whose primary query failed, after
\* which the connection was closed.
C13_Witness ==
  /\ op = "select" /\ args.capture_telemetry /\ pc = "done"
  /\ exc.type = "QueryExecutionError"
  /\ SentInBody # <<>>
  /\ resources.close_calls = 1
  /\ resources.conns[connector._connection.id].closes = 1

\* The texts of the collectors' arm statements, of either backend.
ArmTexts == {ArmStatement(db) : db \in DatabaseType}

\* The last submission of the caller's query was rejected.
QueryFailed == SentInBody # <<>> /\ LastOf(SentInBody).outcome = "error"

\* C19: Database.select with capture_telemetry = false sends no arm
\* statement and no harvest probe: with the acquired connection it sends
\* only the caller's query with the caller's params, in strict mode; it
\* returns that query's result alone, no MetricsRecord, and raises
\* QueryExecutionError if the query fails.
C19_PlainSelect ==
  (op = "select" /\ ~args.capture_telemetry) =>
    /\ \A i \in 1..Len(sent) :
         /\ sent[i].text \notin ArmTexts \cup ProbeTexts
         /\ sent[i].step \in {"get_connection", "query"}
         /\ sent[i].step = "query" =>
              sent[i].text = args.query /\ sent[i].params = args.params
    /\ (pc = "done" /\ ConnectionAcquired) =>
         /\ SentInBody # <<>>
         /\ QueryFailed =>
              /\ exc.type = "QueryExecutionError"
              /\ exc.original_error = LastOf(sent).error
              /\ ret = None
         /\ ~QueryFailed =>
              /\ exc = NoException
              /\ ret.type \in {"DataFrame", "Result"}
              /\ ret.type = "DataFrame" <=> LastOf(sent).outcome = "rows"

\* C19's case: a select without telemetry whose query the connection
\* rejected.
C19_Witness ==
  /\ op = "select" /\ ~args.capture_telemetry /\ pc = "done"
  /\ ConnectionAcquired
  /\ Len(SentInBody) = 1
  /\ exc.type = "QueryExecutionError"

\* C17: Database.analyze_query(query, params), once a connection is
\* acquired, returns a dictionary holding the query analysis obtained from
\* the backend's collector, and releases the connection afterwards.  (The
\* collector classes define no get_execution_plan.)
C17_AnalyzeQueryReturnsPlan ==
  (op = "analyze_query" /\ pc = "done" /\ ConnectionAcquired) =>
    /\ exc = NoException
    /\ ret.type = "dict"
    /\ resources.close_calls = 1

\* C18: Database.get_performance_metrics(), once a connection is acquired,
\* returns a dictionary of performance metrics obtained from the backend's
\* collector, and releases the connection afterwards.  (The collector
\* classes define no get_resource_usage.)
C18_PerformanceMetricsReturned ==
  (op = "get_performance_metrics" /\ pc = "done" /\ ConnectionAcquired) =>
    /\ exc = NoException
    /\ ret.type = "dict"
    /\ resources.close_calls = 1

\* C14: when select(capture_telemetry=True) calls on one Database object
\* interleave, each call owns its connection exclusively from its arm
\* statement through its last harvest probe: no other call sends a
\* statement on that connection, no other call's release closes it in that
\* span, and no connection is handed to two calls.  (The connector keeps
\* one _connection field for all calls.)
C14_ExclusiveConnection ==
  \A t \in DOMAIN calls :
    /\ ~calls[t].sent_under
    /\ ~calls[t].closed_under
    /\ \A u \in DOMAIN calls \ {t} :
         calls[t].connection # None => calls[u].connection # calls[t].connection

\* close_connection was entered and its close() raised: the cleanup's error
\* record is the last one logged.
CloseRaised ==
  /\ log # <<>>
  /\ LastOf(log) = LogRecord("ERROR", ConnectorLogger(db_type))
  /\ pc = "done"

\* C24: over sequential Database calls on one object, every connection the
\* connector returned is closed exactly once: none is closed a second time,
\* and once a call has ended with its close() going through, none is open.
\* (close_connection closes whatever self._connection refers to; a call
\* whose connect() fails leaves there the previous call's connection.)
C24_ClosedExactlyOnce ==
  /\ \A c \in 1..Len(resources.conns) : resources.conns[c].closes <= 1
  /\ (pc = "done" /\ ~CloseRaised) =>
       \A c \in 1..Len(resources.conns) : resources.conns[c].closes = 1

\* ----------------------------------------------- properties, DatabaseConfig

\* A value C20 excludes: port outside 1..65535, pool_size < 1,
\* max_overflow < 0, pool_timeout < 1, or an empty user, password or host.
OutOfRange(c) ==
  \/ c.port.type = "int" /\ (c.port.value < 1 \/ c.port.value > 65535)
  \/ c.pool_size < 1
  \/ c.max_overflow < 0
  \/ c.pool_timeout < 1
  \/ PyStr("") \in {c.user, c.password, c.host}

\* C20: constructing a DatabaseConfig fails with DatabaseConfigError
\* whenever port is outside 1..65535, pool_size < 1, max_overflow < 0,
\* pool_timeout < 1, or user, password or host is empty; no DatabaseConfig
\* object exists with one of those values out of range.
C20_OutOfRangeRejected ==
  (op = "DatabaseConfig" /\ pc # "idle") =>
    /\ OutOfRange(args) =>
         /\ pc = "raised"
         /\ exc.type = "DatabaseConfigError"
         /\ ret = None
    /\ pc = "returned" =>
         /\ ret.type = "DatabaseConfig"
         /\ ret.fields = args
         /\ ~OutOfRange(ret.fields)

\* C20's case: only the port is out of range, one above the largest port.
C20_Witness ==
  /\ op = "DatabaseConfig" /\ pc = "raised"
  /\ args.port = PyInt(65536)
  /\ args.pool_size >= 1 /\ args.max_overflow >= 0 /\ args.pool_timeout >= 1
  /\ \A v \in {args.user, args.password, args.host} : v = PyStr("neuro")
  /\ exc = DatabaseConfigError("Invalid port number")

\* ----------------------------------------------------- properties, harvest

\* What the script answers to the field's probe.
Answer(f) == script[f][1]

\* The first cell of the rows the script answers to the field's probe.
FirstCell(f) == IntOf(Answer(f).rows[1])

\* The probe failed, returned no rows, or returned a table lacking the
\* backend's expected column.
NoValue(f) ==
  \/ Answer(f).kind # "rows"
  \/ Answer(f).rows = <<>>
  \/ ExpectedColumn(db_type, f) \notin Answer(f).columns

\* As NoValue, or the first row's cell is not the text of an integer.
NoInteger(f) == NoValue(f) \/ ~FirstCell(f).ok

Counters == {"table_scans", "temp_tables"}

\* C22 as stated: each of the four fields takes its default exactly when
\* its own probe failed, returned no rows or lacked the expected column, and
\* the column's value otherwise, whatever the other probes did; all four
\* probes are executed.
C22_FieldFromOwnProbeOnly ==
  /\ pc # "raised"
  /\ (pc = "returned" =>
        LET m == ret.metrics
        IN  /\ \A f \in HarvestSteps : SentBy(f) # <<>>
            /\ m.indexes_used =
                 IF NoValue("indexes_used") THEN <<>> ELSE Answer("indexes_used").rows
            /\ \A f \in Counters :
                 /\ NoValue(f) => m[f] = 0
                 /\ ~NoValue(f) => FirstCell(f).ok /\ m[f] = FirstCell(f).value
            /\ NoValue("memory_used") => m.memory_used = None
            /\ ~NoValue("memory_used") =>
                 /\ FirstCell("memory_used").ok
                 /\ m.memory_used = PyInt(FirstCell("memory_used").value))

\* C22, amended: the default is also taken when the first row's cell of the
\* expected column is not an integer.
C22_FieldFromOwnProbe ==
  /\ pc # "raised"
  /\ (pc = "returned" =>
        LET m == ret.metrics
        IN  /\ \A f \in HarvestSteps : SentBy(f) # <<>>
            /\ m.indexes_used =
                 IF NoValue("indexes_used") THEN <<>> ELSE Answer("indexes_used").rows
            /\ \A f \in Counters :
                 /\ NoInteger(f) => m[f] = 0
                 /\ ~NoInteger(f) => m[f] = FirstCell(f).value
            /\ NoInteger("memory_used") => m.memory_used = None
            /\ ~NoInteger("memory_used") =>
                 m.memory_used = PyInt(FirstCell("memory_used").value))

\* C22's case: the indexes probe was rejected, the table_scans probe gave
\* two rows, the temp_tables probe a table without the expected column, the
\* memory probe had no result set; each field follows its own probe.
C22_Witness ==
  /\ pc = "returned"
  /\ Answer("indexes_used").kind = "raise"
  /\ ~NoInteger("table_scans") /\ Len(Answer("table_scans").rows) = 2
  /\ ret.metrics.table_scans = 7
  /\ NoValue("temp_tables") /\ Answer("temp_tables").kind = "rows"
  /\ Answer("temp_tables").rows # <<>>
  /\ Answer("memory_used").kind = "norows"
  /\ ret.metrics.memory_used = None

IntegerFields == Counters \cup {"memory_used"}

\* The field's default, and the field's value for the integer n.
DefaultOf(f) == IF f = "memory_used" THEN None ELSE 0

ValueOf(f, n) == IF f = "memory_used" THEN PyInt(n) ELSE n

\* C26: when the table_scans, temp_tables or memory_used probe returns rows
\* whose expected column holds, in the first row, a value that is not an
\* integer, collect_metrics does not raise and the field takes its default
\* (0, 0, None); the other fields are as their own probes make them; a
\* value that is an integer is taken from the first row, whatever the
\* following rows hold.
C26_NonIntegerDegrades ==
  /\ pc # "raised" /\ exc = NoException
  /\ (pc = "returned" =>
        \A f \in IntegerFields :
          ~NoValue(f) =>
            ret.metrics[f] = IF FirstCell(f).ok
                               THEN ValueOf(f, IntOf(Answer(f).rows[1]).value)
                               ELSE DefaultOf(f))

\* C26's case: the table_scans probe gave "na" in its first row and "7" in
\* its second, the temp_tables probe "7" and then "-3", the memory probe
\* "na": the call returned 0, 7 and None.
C26_Witness ==
  /\ pc = "returned"
  /\ ~NoValue("table_scans")
  /\ Answer("table_scans").rows = << <<"n", "a">>, <<"7">> >>
  /\ ret.metrics.table_scans = 0
  /\ ~NoValue("temp_tables")
  /\ Answer("temp_tables").rows = << <<"7">>, <<"-", "3">> >>
  /\ ret.metrics.temp_tables = 7
  /\ ~NoValue("memory_used") /\ ~FirstCell("memory_used").ok
  /\ ret.metrics.memory_used = None

====
